---- MODULE Spec2Model ----
(***************************************************************************)
(* Model of the ui-actions repository: the `publish` decision engine and   *)
(* the `version-metadata` history reconstructor.                           *)
(*                                                                         *)
(* Strings are sequences of one-character strings, so that split, parseInt *)
(* and number formatting are computed as the JavaScript code computes      *)
(* them and a version string with a leading zero ("01.0.0") is a different *)
(* string from "1.0.0" although both parse to the same numbers.            *)
(***************************************************************************)
EXTENDS Integers, Sequences, FiniteSets, TLC

\* ------------------------------------------------------------------------
\* Bounds of the model
\* ------------------------------------------------------------------------
MaxFiles == 2
MaxGlobs == 2
MaxCommits == 3
MaxDedupLen == 5

\* longest list of changed files handed to categorizeChangedFiles
MaxChangedFiles == 2

\* most versions published to the registry by consecutive runs
MaxRuns == 3

\* ------------------------------------------------------------------------
\* String primitives (String.prototype.split / includes, parseInt, `${n}`)
\* ------------------------------------------------------------------------
DigitChars == <<"0", "1", "2", "3", "4", "5", "6", "7", "8", "9">>

IsDigit(c) == \E i \in 1..10 : DigitChars[i] = c

DigitVal(c) == (CHOOSE i \in 1..10 : DigitChars[i] = c) - 1

\* the value parseInt and Number.isNaN treat as "not a number"
NaN == -1

\* index of the first occurrence of character c in s, 0 when absent
RECURSIVE IndexOf(_, _, _)
IndexOf(s, c, i) ==
  IF i > Len(s) THEN 0
  ELSE IF s[i] = c THEN i
  ELSE IndexOf(s, c, i + 1)

Includes(s, c) == IndexOf(s, c, 1) # 0

\* s.split(c): the pieces of s between the occurrences of c
RECURSIVE Split(_, _)
Split(s, c) ==
  LET i == IndexOf(s, c, 1) IN
    IF i = 0 THEN <<s>>
    ELSE <<SubSeq(s, 1, i - 1)>> \o Split(SubSeq(s, i + 1, Len(s)), c)

\* value of the longest prefix of digits of s read from position i on
RECURSIVE DigitsPrefixVal(_, _, _)
DigitsPrefixVal(s, i, acc) ==
  IF i > Len(s) \/ ~IsDigit(s[i]) THEN acc
  ELSE DigitsPrefixVal(s, i + 1, acc * 10 + DigitVal(s[i]))

\* parseInt(s) for strings without sign or white space: the leading digits,
\* NaN when s does not start with a digit
ParseInt(s) ==
  IF Len(s) = 0 \/ ~IsDigit(s[1]) THEN NaN
  ELSE DigitsPrefixVal(s, 1, 0)

\* `${n}` for a non-negative integer: decimal digits without leading zeros
RECURSIVE NumToString(_)
NumToString(n) ==
  IF n < 10 THEN <<DigitChars[n + 1]>>
  ELSE NumToString(n \div 10) \o <<DigitChars[(n % 10) + 1]>>

\* `${n}` for any number the code can hold: NaN prints as "NaN"
NumStr(n) == IF n = NaN THEN <<"N", "a", "N">> ELSE NumToString(n)

\* n + 1 in JavaScript arithmetic (NaN + 1 is NaN)
Plus1(n) == IF n = NaN THEN NaN ELSE n + 1

AllDigits(s) == Len(s) > 0 /\ \A i \in 1..Len(s) : IsDigit(s[i])

\* /^([0-9]+)\.([0-9]+)\.([0-9]+)(?:-([0-9]+))?$/.test(s)
semverSchema(s) ==
  LET parts == Split(s, ".") IN
    /\ Len(parts) = 3
    /\ AllDigits(parts[1])
    /\ AllDigits(parts[2])
    /\ LET tail == Split(parts[3], "-") IN
         \/ Len(tail) = 1 /\ AllDigits(tail[1])
         \/ Len(tail) = 2 /\ AllDigits(tail[1]) /\ AllDigits(tail[2])

\* builders of version strings from component strings
Ver(a, b, c) == a \o <<".">> \o b \o <<".">> \o c

VerPre(a, b, c, p) == Ver(a, b, c) \o <<"-">> \o p

\* a thrown exception / a returned value
Threw == [threw |-> TRUE, value |-> <<>>]

Returned(v) == [threw |-> FALSE, value |-> v]

\* ------------------------------------------------------------------------
\* publish/src/utils.ts : incrementVersion
\* ------------------------------------------------------------------------
\* the preRelease component of a version without "-" suffix
Undefined == -2

incrementPreReleaseKeepPatch(major, minor, patch, preRelease) ==
  IF preRelease = Undefined
  THEN VerPre(NumStr(major), NumStr(minor), NumStr(patch), NumStr(0))
  ELSE VerPre(NumStr(major), NumStr(minor), NumStr(patch), NumStr(Plus1(preRelease)))

incrementPreRelease(major, minor, patch, preRelease) ==
  IF preRelease = Undefined
  THEN VerPre(NumStr(major), NumStr(minor), NumStr(Plus1(patch)), NumStr(0))
  ELSE VerPre(NumStr(major), NumStr(minor), NumStr(patch), NumStr(Plus1(preRelease)))

incrementPatchKeepsPatch(major, minor, patch) ==
  Ver(NumStr(major), NumStr(minor), NumStr(patch))

incrementPatch(major, minor, patch) ==
  Ver(NumStr(major), NumStr(minor), NumStr(Plus1(patch)))

incrementMinor(major, minor) ==
  Ver(NumStr(major), NumStr(Plus1(minor)), NumStr(0))

incrementMajor(major) ==
  Ver(NumStr(Plus1(major)), NumStr(0), NumStr(0))

IncrementTypes == {"pre-release", "patch", "minor", "major"}

incrementVersion(version, type) ==
  LET parts == Split(version, ".") IN
    IF Len(parts) < 3 THEN Threw   \* maybePatch is undefined: TypeError
    ELSE
      LET major == ParseInt(parts[1])
          minor == ParseInt(parts[2])
          maybePatch == parts[3]
          hasPre == Includes(maybePatch, "-")
          patch == IF hasPre THEN ParseInt(Split(maybePatch, "-")[1])
                   ELSE ParseInt(maybePatch)
          preRelease == IF hasPre THEN ParseInt(Split(maybePatch, "-")[2])
                        ELSE Undefined
      IN IF preRelease = NaN THEN Threw
         ELSE IF type = "pre-release"
           THEN Returned(incrementPreRelease(major, minor, patch, preRelease))
         ELSE IF type = "patch" THEN Returned(incrementPatch(major, minor, patch))
         ELSE IF type = "minor" THEN Returned(incrementMinor(major, minor))
         ELSE IF type = "major" THEN Returned(incrementMajor(major))
         ELSE Threw

\* ------------------------------------------------------------------------
\* version-metadata/src/utils.ts : parseSemverVersion, getSemverDiffType
\* ------------------------------------------------------------------------
NoPreRelease == [defined |-> FALSE, text |-> <<>>]

\* defined only for versions with at least three "."-separated parts; on any
\* other string the code reads `includes` of undefined and throws
parseSemverVersion(version) ==
  LET parts == Split(version, ".")
      maybePatch == parts[3]
      pieces == Split(maybePatch, "-")
  IN [major |-> ParseInt(parts[1]),
      minor |-> ParseInt(parts[2]),
      patch |-> ParseInt(pieces[1]),
      preRelease |-> IF Includes(maybePatch, "-")
                     THEN [defined |-> TRUE, text |-> pieces[2]]
                     ELSE NoPreRelease]

\* a !== b on numbers: NaN differs from everything, itself included
NumNeq(a, b) == a = NaN \/ b = NaN \/ a # b

getSemverDiffTypePatchFirst(versionA, versionB) ==
  IF Len(Split(versionA, ".")) < 3 \/ Len(Split(versionB, ".")) < 3 THEN "threw"
  ELSE
    LET A == parseSemverVersion(versionA)
        B == parseSemverVersion(versionB)
    IN IF NumNeq(A.patch, B.patch) THEN "patch"
       ELSE IF NumNeq(A.minor, B.minor) THEN "minor"
       ELSE IF NumNeq(A.major, B.major) THEN "major"
       ELSE IF A.preRelease # B.preRelease THEN "pre-release"
       ELSE IF versionA = versionB THEN "equal"
       ELSE "threw"

\* the label returned, or "threw" when the call raises
getSemverDiffType(versionA, versionB) ==
  IF Len(Split(versionA, ".")) < 3 \/ Len(Split(versionB, ".")) < 3 THEN "threw"
  ELSE
    LET A == parseSemverVersion(versionA)
        B == parseSemverVersion(versionB)
    IN IF NumNeq(A.major, B.major) THEN "major"
       ELSE IF NumNeq(A.minor, B.minor) THEN "minor"
       ELSE IF NumNeq(A.patch, B.patch) THEN "patch"
       ELSE IF A.preRelease # B.preRelease THEN "pre-release"
       ELSE IF versionA = versionB THEN "equal"
       ELSE "threw"

\* ------------------------------------------------------------------------
\* State
\* ------------------------------------------------------------------------
VARIABLES
  fname,   \* utility function applied last ("none" before the first call)
  fargs,   \* its arguments
  fret     \* what it returned

fvars == <<fname, fargs, fret>>

\* the publish action (publish/src/index.ts)
VARIABLES
  ppc,       \* "idle" before the process runs, then "done" or "failed"
  inputs,    \* the action inputs read from the environment
  decision,  \* the value returned by run()
  outputs,   \* the outputs emitted with core.setOutput, by name
  published  \* the versions the workflow published after earlier runs

pvars == <<ppc, inputs, decision, outputs, published>>

\* the version-metadata action (version-metadata/src/index.ts)
VARIABLES
  hpc,               \* "idle", "fetching" (Promise.all pending), "done", "failed"
  base,              \* the base ref the run works with
  head,              \* the head ref
  extractionMethod,  \* "json", "regex" or "command"
  changedFilesCategorized,
  commits,           \* the examined commits kept by the merge-commit scan
  responses,         \* per kept commit: "pending" or the settled fetch
  response,          \* the VersionMetadataResponse returned by run()
  houtputs           \* names of the outputs emitted with core.setOutput

hvars == <<hpc, base, head, extractionMethod, changedFilesCategorized,
           commits, responses, response, houtputs>>

vars == <<fname, fargs, fret, ppc, inputs, decision, outputs, published,
          hpc, base, head, extractionMethod, changedFilesCategorized,
          commits, responses, response, houtputs>>

FnIdle == fname = "none" /\ fargs = <<>> /\ fret = <<>>

NoDecision == [publish |-> FALSE, version |-> <<>>, reason |-> "none", row |-> "none"]

PublishIdle ==
  /\ ppc = "idle" /\ inputs = <<>> /\ decision = NoDecision /\ outputs = <<>>
  /\ published = <<>>

\* commit.sha of the artificial parent commit
Null == <<>>

NoResponse ==
  [changed |-> FALSE, oldVersion |-> <<>>, newVersion |-> <<>>, type |-> "none",
   commitResponsible |-> Null, commitBase |-> <<>>, commitHead |-> <<>>,
   changes |-> <<>>, changedFiles |-> <<>>]

HistoryIdle ==
  /\ hpc = "idle"
  /\ base = <<>> /\ head = <<>>
  /\ extractionMethod = "json"
  /\ changedFilesCategorized = <<>>
  /\ commits = <<>> /\ responses = <<>>
  /\ response = NoResponse
  /\ houtputs = {}

\* ------------------------------------------------------------------------
\* Calls of incrementVersion on validated versions
\* ------------------------------------------------------------------------
\* digit strings the components of the versions are drawn from
IncComponents ==
  {<<"0">>, <<"1">>, <<"2">>, <<"3">>, <<"9">>, <<"0", "1">>, <<"4", "0">>}

\* <<>> stands for "no pre-release suffix"
BuildVersion(a, b, c, p) == IF p = <<>> THEN Ver(a, b, c) ELSE VerPre(a, b, c, p)

CallIncrementVersion ==
  /\ FnIdle
  /\ \E a \in IncComponents, b \in IncComponents, c \in IncComponents,
        p \in IncComponents \cup {<<>>}, t \in IncrementTypes :
    LET v == BuildVersion(a, b, c, p) IN
      /\ semverSchema(v)
      /\ fname' = "incrementVersion"
      /\ fargs' = [version |-> v, type |-> t, major |-> a, minor |-> b,
                   patch |-> c, preRelease |-> p]
      /\ fret' = incrementVersion(v, t)
      /\ UNCHANGED <<pvars, hvars>>

InitIncrement == FnIdle /\ PublishIdle /\ HistoryIdle

NextIncrement == CallIncrementVersion

SpecIncrement == InitIncrement /\ [][NextIncrement]_vars

\* ------------------------------------------------------------------------
\* Calls of getSemverDiffType on pairs of versions
\* ------------------------------------------------------------------------
DiffComponents == {<<"0">>, <<"1">>, <<"0", "1">>, <<"2">>}

DiffExamples ==
  { [major |-> <<"2">>, minor |-> <<"0">>, patch |-> <<"4">>, preRelease |-> <<>>],
    [major |-> <<"1">>, minor |-> <<"0">>, patch |-> <<"0">>, preRelease |-> <<"5">>] }

DiffInputs ==
  [major : DiffComponents, minor : DiffComponents, patch : DiffComponents,
   preRelease : DiffComponents \cup {<<>>}] \cup DiffExamples

VersionOf(r) == BuildVersion(r.major, r.minor, r.patch, r.preRelease)

CallGetSemverDiffType ==
  /\ FnIdle
  /\ \E A \in DiffInputs, B \in DiffInputs :
    /\ fname' = "getSemverDiffType"
    /\ fargs' = [A |-> A, B |-> B]
    /\ fret' = getSemverDiffType(VersionOf(A), VersionOf(B))
    /\ UNCHANGED <<pvars, hvars>>

InitDiff == FnIdle /\ PublishIdle /\ HistoryIdle

NextDiff == CallGetSemverDiffType

SpecDiff == InitDiff /\ [][NextDiff]_vars

\* ------------------------------------------------------------------------
\* publish/src/index.ts : relevant files (multimatch)
\* ------------------------------------------------------------------------
\* a path is its sequence of segments; a glob is a sequence of segment
\* patterns: a literal segment, "*" (one segment), "*.md" (one segment with
\* that extension) or "**" (any number of segments)
Paths == { <<"lib", "a.ts">>, <<"README.md">>, <<"docs", "api", "index.md">> }

Globs == { <<"lib", "**">>, <<"*.md">>, <<"docs", "*">> }

MarkdownSegments == {"README.md", "index.md"}

SegmentMatches(seg, pat) ==
  IF pat = "*" THEN TRUE
  ELSE IF pat = "*.md" THEN seg \in MarkdownSegments
  ELSE seg = pat

RECURSIVE GlobMatches(_, _)
GlobMatches(path, glob) ==
  IF Len(glob) = 0 THEN Len(path) = 0
  ELSE IF Head(glob) = "**"
    THEN \/ GlobMatches(path, Tail(glob))
         \/ Len(path) > 0 /\ GlobMatches(Tail(path), glob)
  ELSE /\ Len(path) > 0
       /\ SegmentMatches(Head(path), Head(glob))
       /\ GlobMatches(Tail(path), Tail(glob))

\* minimatch.match(list, pattern): the paths of list matching the pattern
RECURSIVE MinimatchMatch(_, _)
MinimatchMatch(list, glob) ==
  IF Len(list) = 0 THEN <<>>
  ELSE (IF GlobMatches(Head(list), glob) THEN <<Head(list)>> ELSE <<>>)
       \o MinimatchMatch(Tail(list), glob)

Elements(seq) == { seq[i] : i \in 1..Len(seq) }

\* array-union: a followed by the elements of b not yet present
RECURSIVE ArrayUnion(_, _)
ArrayUnion(a, b) ==
  IF Len(b) = 0 THEN a
  ELSE ArrayUnion(IF Head(b) \in Elements(a) THEN a ELSE Append(a, Head(b)), Tail(b))

RECURSIVE MultimatchFrom(_, _, _)
MultimatchFrom(result, list, patterns) ==
  IF Len(patterns) = 0 THEN result
  ELSE MultimatchFrom(ArrayUnion(result, MinimatchMatch(list, Head(patterns))),
                      list, Tail(patterns))

multimatch(list, patterns) == MultimatchFrom(<<>>, list, patterns)

\* ------------------------------------------------------------------------
\* publish/src/utils.ts : summary (which narrative is used)
\* ------------------------------------------------------------------------
summary(oldVersion, newVersion, didAutoIncrement) ==
  IF oldVersion = newVersion THEN "noNewVersion"
  ELSE IF didAutoIncrement THEN "newVersionAutoDetected"
  ELSE "newVersionManuallySet"

\* ------------------------------------------------------------------------
\* publish/src/index.ts : input validation, run, outputs
\* ------------------------------------------------------------------------
incrementTypeSchemaOnlyPreRelease(t) == t = "pre-release"

incrementTypeSchema(t) == t \in IncrementTypes

versionMetadataJsonSchema(m) ==
  /\ semverSchema(m.oldVersion)
  /\ semverSchema(m.newVersion)

InputsValid(in) ==
  /\ incrementTypeSchema(in.incrementType)
  /\ semverSchema(in.latestRegistryVersion)
  /\ versionMetadataJsonSchema(in.versionMetadata)

\* the condition of the second branch of run()
AutoIncrementWithoutNonLinear(relevantFiles, detectedNonLinearHistory) ==
  Len(relevantFiles) > 0

AutoIncrementCondition(relevantFiles, detectedNonLinearHistory) ==
  Len(relevantFiles) > 0 \/ detectedNonLinearHistory

\* the first branch of run() with the negation of the test forgotten
ExplicitBumpMissingNegation(versionMetadata, detectedNonLinearHistory) ==
  versionMetadata.changed /\ detectedNonLinearHistory

ExplicitBumpCondition(versionMetadata, detectedNonLinearHistory) ==
  versionMetadata.changed /\ ~detectedNonLinearHistory

\* the version the automatic increment starts from
IncrementBaseFromFile(in) == in.versionMetadata.newVersion

IncrementBase(in) == in.latestRegistryVersion

\* run(): the decision, or Threw when incrementVersion throws
run(in) ==
  LET versionMetadata == in.versionMetadata
      relevantFiles == multimatch(versionMetadata.changedFiles.all, in.relevantFilesGlobs)
      oldVersion == versionMetadata.oldVersion
      detectedNonLinearHistory == versionMetadata.newVersion = in.latestRegistryVersion
  IN IF ExplicitBumpCondition(versionMetadata, detectedNonLinearHistory)
     THEN Returned([publish |-> TRUE,
                    version |-> versionMetadata.newVersion,
                    reason |-> summary(oldVersion, versionMetadata.newVersion, FALSE),
                    row |-> "explicit"])
     ELSE IF AutoIncrementCondition(relevantFiles, detectedNonLinearHistory)
     THEN LET incrementedVersion ==
                incrementVersion(IncrementBase(in), in.incrementType)
          IN IF incrementedVersion.threw THEN Threw
             ELSE Returned([publish |-> TRUE,
                            version |-> incrementedVersion.value,
                            reason |-> summary(oldVersion, incrementedVersion.value, TRUE),
                            row |-> "auto"])
     ELSE Returned([publish |-> FALSE,
                    version |-> <<>>,
                    reason |-> summary(oldVersion, oldVersion, FALSE),
                    row |-> "none"])

\* the outputs set after run() returned d; `version` only if it is truthy
EmitAlwaysVersion(d) ==
  [name \in {"publish", "version", "reason", "json"} |->
     IF name = "publish" THEN (IF d.publish THEN "true" ELSE "false")
     ELSE IF name = "version" THEN d.version
     ELSE IF name = "reason" THEN d.reason
     ELSE "json"]

EmitOutputs(d) ==
  [name \in {"publish", "reason", "json"} \cup
            (IF d.version # <<>> THEN {"version"} ELSE {}) |->
     IF name = "publish" THEN (IF d.publish THEN "true" ELSE "false")
     ELSE IF name = "version" THEN d.version
     ELSE IF name = "reason" THEN d.reason
     ELSE "json"]

\* lists without repetition of at most n elements of S
RECURSIVE ListsUpTo(_, _)
ListsUpTo(S, n) ==
  IF n = 0 THEN {<<>>}
  ELSE LET shorter == ListsUpTo(S, n - 1)
       IN shorter \cup { Append(l, x) : l \in shorter, x \in S }

DistinctListsUpTo(S, n) ==
  { l \in ListsUpTo(S, n) : \A i, j \in 1..Len(l) : i # j => l[i] # l[j] }

\* version strings offered as inputs: four valid ones and a malformed one
PublishVersions ==
  { Ver(<<"1">>, <<"0">>, <<"0">>),
    Ver(<<"1">>, <<"0">>, <<"1">>),
    VerPre(<<"1">>, <<"0">>, <<"1">>, <<"0">>),
    Ver(<<"0">>, <<"0">>, <<"4", "0">>),
    <<"1", ".", "0">> }

IncrementTypeInputs == IncrementTypes \cup {"premajor"}

PublishInputs ==
  [ incrementType : IncrementTypeInputs,
    relevantFilesGlobs : DistinctListsUpTo(Globs, MaxGlobs),
    latestRegistryVersion : PublishVersions,
    versionMetadata :
      [ changed : BOOLEAN,
        oldVersion : PublishVersions,
        newVersion : PublishVersions,
        changedFiles : [ all : DistinctListsUpTo(Paths, MaxFiles) ] ] ]

\* the whole module body of publish/src/index.ts: read and validate the
\* inputs, run(), emit the outputs
\* the process with its inputs taken from ins
PublishMainOn(ins) ==
  /\ ppc = "idle"
  /\ \E in \in ins :
       /\ inputs' = in
       /\ IF ~InputsValid(in)
          THEN \* uncaught Error at module level: nothing is emitted
               /\ ppc' = "failed"
               /\ decision' = NoDecision
               /\ outputs' = <<>>
          ELSE LET r == run(in) IN
               IF r.threw
               THEN \* core.setFailed(error.message)
                    /\ ppc' = "failed"
                    /\ decision' = NoDecision
                    /\ outputs' = <<>>
               ELSE /\ ppc' = "done"
                    /\ decision' = r.value
                    /\ outputs' = EmitOutputs(r.value)
  /\ UNCHANGED <<published, fvars, hvars>>

PublishMain == PublishMainOn(PublishInputs)

Init == FnIdle /\ PublishIdle /\ HistoryIdle

Next == PublishMain

Spec == Init /\ [][Next]_vars

\* ------------------------------------------------------------------------
\* version-metadata/src/utils.ts : deduplicateConsecutive,
\* parseVersionFromFileContents, computeResponseFromChanges
\* ------------------------------------------------------------------------
\* the content of an empty file (the empty string, which is falsy)
EmptyContent == [kind |-> "empty", version |-> <<>>, variant |-> <<>>]

\* one step of the reducer returned by deduplicateConsecutive(accessor);
\* value is accessor(curr) and falsy is the falsy value of the accessor's
\* type (the empty content, the empty string); acc.last holds falsy while it
\* is undefined, which no value reaching the comparison equals
DedupStepKeepsRepeats(acc, curr, value, falsy) ==
  IF value = falsy THEN acc
  ELSE [list |-> Append(acc.list, curr), last |-> value]

DedupStep(acc, curr, value, falsy) ==
  IF value = falsy THEN acc
  ELSE IF acc.last = value THEN acc
  ELSE [list |-> Append(acc.list, curr), last |-> value]

RECURSIVE ReduceDedup(_, _, _, _, _)
ReduceDedup(acc, items, values, falsy, i) ==
  IF i > Len(items) THEN acc
  ELSE ReduceDedup(DedupStep(acc, items[i], values[i], falsy),
                   items, values, falsy, i + 1)

deduplicateConsecutiveSeededWithFirst(items, values, falsy) ==
  ReduceDedup([list |-> <<>>, last |-> IF Len(values) > 0 THEN values[1] ELSE falsy],
              items, values, falsy, 1).list

\* items.reduce(deduplicateConsecutive(accessor), {list: [], last: undefined}).list
\* where values[i] = accessor(items[i])
deduplicateConsecutive(items, values, falsy) ==
  ReduceDedup([list |-> <<>>, last |-> falsy], items, values, falsy, 1).list

ExtractFailure == [success |-> FALSE, version |-> <<>>]

\* a file content is a record: kind "empty", "unparsable" (no version can be
\* found in it), "versioned" (it holds the text `version`) or "fallback"
parseVersionFromFileContentsJSON(fileContent) ==
  IF fileContent.kind \in {"versioned", "fallback"} /\ fileContent.version # <<>>
  THEN [success |-> TRUE, version |-> fileContent.version]
  ELSE ExtractFailure

\* regex and command extraction validate what they captured; the configured
\* regex or command is written for the tracked file's own format (such as
\* `version = "(.*)"` for a toml file), which the JSON dummy payload is not in
parseVersionFromFileContentsValidated(fileContent) ==
  IF /\ fileContent.kind = "versioned"
     /\ semverSchema(fileContent.version)
  THEN [success |-> TRUE, version |-> fileContent.version]
  ELSE ExtractFailure

parseVersionFromFileContentsDefaultsToZero(fileContent, extraction) ==
  LET maybeVersion ==
        IF extraction = "json" THEN parseVersionFromFileContentsJSON(fileContent)
        ELSE parseVersionFromFileContentsValidated(fileContent)
  IN IF maybeVersion.success THEN maybeVersion
     ELSE [success |-> TRUE, version |-> <<"0", ".", "0", ".", "0">>]

parseVersionFromFileContents(fileContent, extraction) ==
  IF extraction = "json" THEN parseVersionFromFileContentsJSON(fileContent)
  ELSE parseVersionFromFileContentsValidated(fileContent)

computeResponseKeepsReturn(changes, changedFiles, oldVersion, b, h) ==
  IF Len(changes) = 0
  THEN Returned([changed |-> FALSE, oldVersion |-> oldVersion, newVersion |-> oldVersion,
                 type |-> "none", commitResponsible |-> Null,
                 commitBase |-> b, commitHead |-> h,
                 changes |-> <<>>, changedFiles |-> changedFiles])
  ELSE LET newVersion == changes[Len(changes)].newVersion
           type == getSemverDiffType(oldVersion, newVersion)
       IN IF type = "threw" THEN Threw
          ELSE Returned([changed |-> TRUE, oldVersion |-> oldVersion,
                         newVersion |-> newVersion, type |-> type,
                         commitResponsible |-> changes[Len(changes)].commit,
                         commitBase |-> b, commitHead |-> h,
                         changes |-> changes, changedFiles |-> changedFiles])

computeResponseFromChanges(changes, changedFiles, oldVersion, b, h) ==
  IF Len(changes) = 0
  THEN Returned([changed |-> FALSE, oldVersion |-> oldVersion, newVersion |-> oldVersion,
                 type |-> "none", commitResponsible |-> Null,
                 commitBase |-> b, commitHead |-> h,
                 changes |-> <<>>, changedFiles |-> changedFiles])
  ELSE LET newVersion == changes[Len(changes)].newVersion IN
       IF newVersion = oldVersion
       THEN Returned([changed |-> FALSE, oldVersion |-> oldVersion,
                      newVersion |-> newVersion,
                      type |-> "none", commitResponsible |-> Null,
                      commitBase |-> b, commitHead |-> h,
                      changes |-> <<>>, changedFiles |-> changedFiles])
       ELSE LET type == getSemverDiffType(oldVersion, newVersion) IN
            IF type = "threw" THEN Threw
            ELSE Returned([changed |-> TRUE, oldVersion |-> oldVersion,
                           newVersion |-> newVersion, type |-> type,
                           commitResponsible |-> changes[Len(changes)].commit,
                           commitBase |-> b, commitHead |-> h,
                           changes |-> changes, changedFiles |-> changedFiles])

\* ------------------------------------------------------------------------
\* version-metadata/src/index.ts : run
\* ------------------------------------------------------------------------
\* commit SHAs are three characters long here; position i of the provider's
\* list [base_commit, ...commits] has the SHA ShaOf(i)
ShaOf(i) == <<"c", DigitChars[i + 1], "f">>

\* the SHA of a commit outside the examined range
ExternalSha == <<"e", "x", "t">>

StartsWith(str, prefix) ==
  Len(prefix) <= Len(str) /\ SubSeq(str, 1, Len(prefix)) = prefix

\* the base as the event supplies it: the SHA of the base commit, or (in
\* local testing) another kind of ref
BaseRefs == { ShaOf(1), <<"m", "a", "i", "n">> }

\* the commits the provider can report at position i: a root commit, a
\* commit with one parent, or a merge commit whose first parent is an
\* earlier commit of the list or a commit outside of it
CommitOptions(i) ==
  { [sha |-> ShaOf(i), parents |-> ps] :
      ps \in {<<>>, <<IF i = 1 THEN ExternalSha ELSE ShaOf(i - 1)>>}
             \cup { <<f, ExternalSha>> : f \in {ShaOf(j) : j \in 1..(i - 1)} \cup {ExternalSha} } }

RECURSIVE CommitLists(_)
CommitLists(n) ==
  IF n = 0 THEN {<<>>}
  ELSE { Append(l, c) : l \in CommitLists(n - 1), c \in CommitOptions(n) }

UnfilteredCommitLists == UNION { CommitLists(n) : n \in 1..MaxCommits }

\* the merge-commit scan; of a kept commit only the SHA is used afterwards
RECURSIVE ScanFrom(_, _, _, _)
ScanFrom(unfilteredCommits, b, i, kept) ==
  IF i > Len(unfilteredCommits) THEN Returned(kept)
  ELSE LET commit == unfilteredCommits[i] IN
    IF Len(commit.parents) = 0
    THEN ScanFrom(unfilteredCommits, b, i + 1,
                  kept \o <<[sha |-> Null], [sha |-> commit.sha]>>)
    ELSE IF Len(commit.parents) = 1 \/ StartsWith(commit.sha, b)
    THEN ScanFrom(unfilteredCommits, b, i + 1, Append(kept, [sha |-> commit.sha]))
    ELSE IF Len(kept) = 0
    THEN Threw   \* commits[-1] is undefined: TypeError
    ELSE IF kept[Len(kept)].sha = commit.parents[1]
    THEN ScanFrom(unfilteredCommits, b, i + 1, Append(kept, [sha |-> commit.sha]))
    ELSE ScanFrom(unfilteredCommits, b, i + 1, kept)

\* the scan of the range commits alone, the base commit left out
ScanCommitsWithoutBaseCommit(unfilteredCommits, b) ==
  ScanFrom(unfilteredCommits, b, 2, <<>>)

ScanCommits(unfilteredCommits, b) == ScanFrom(unfilteredCommits, b, 1, <<>>)

ZeroVersion == Ver(<<"0">>, <<"0">>, <<"0">>)

\* `{ "version": "0.0.0", "fallback_for_commit": "${commit.sha}" }`
dummyResponse(sha) ==
  [kind |-> "fallback", version |-> ZeroVersion,
   variant |-> IF sha = Null THEN <<"n", "u", "l", "l">> ELSE sha]

\* what the tracked file can hold at a commit
FileContents ==
  { EmptyContent,
    [kind |-> "unparsable", version |-> <<>>, variant |-> <<"a">>],
    [kind |-> "versioned", version |-> Ver(<<"1">>, <<"0">>, <<"0">>), variant |-> <<"a">>],
    [kind |-> "versioned", version |-> Ver(<<"1">>, <<"0">>, <<"0">>), variant |-> <<"b">>],
    [kind |-> "versioned", version |-> Ver(<<"1">>, <<"0">>, <<"1">>), variant |-> <<"a">>],
    [kind |-> "versioned", version |-> Ver(<<"0", "1">>, <<"0">>, <<"0">>), variant |-> <<"a">>],
    [kind |-> "versioned", version |-> <<"1", ".", "0">>, variant |-> <<"a">>] }

\* a getContent promise that has not settled yet
Pending ==
  [settled |-> FALSE, status200 |-> FALSE, isFallback |-> FALSE, content |-> EmptyContent,
   error |-> "none"]

\* { sha, response: { status: 200, data: { content } }, isFallback }
Settled(isFallback, content) ==
  [settled |-> TRUE, status200 |-> TRUE, isFallback |-> isFallback, content |-> content,
   error |-> "none"]

\* a response that resolved with a status other than 200
SettledNot200 ==
  [settled |-> TRUE, status200 |-> FALSE, isFallback |-> FALSE, content |-> EmptyContent,
   error |-> "none"]

\* what the catch handler of a rejected getContent returns for the commit;
\* error is the message of the rejection, which the handler only logs
CaughtRejection(error, sha) ==
  [settled |-> TRUE, status200 |-> TRUE, isFallback |-> TRUE,
   content |-> dummyResponse(sha), error |-> error]

\* the rejections of getContent: the file does not exist at the commit, or
\* the request itself failed (authorization, rate limit, transport)
FileAbsent == "Not Found"

FetchErrors == {FileAbsent, "Bad credentials"}

\* categorizeChangedFiles of the provider's `files`
CategorizedFiles ==
  [all |-> << <<"lib", "a.ts">>, <<"README.md">> >>,
   added |-> << <<"lib", "a.ts">> >>,
   modified |-> << <<"README.md">> >>,
   removed |-> <<>>, renamed |-> <<>>]

ExtractionMethods == {"json", "regex", "command"}

InitialResponsesFetchesSentinel(kept) ==
  [i \in 1..Len(kept) |-> Pending]

\* commits.map(...) of the Promise.all: the artificial commit (sha null) is
\* answered with the dummy response, every other commit gets a getContent
\* request
InitialResponses(kept) ==
  [i \in 1..Len(kept) |->
     IF kept[i].sha = Null THEN Settled(TRUE, dummyResponse(Null)) ELSE Pending]

\* run() from the answer of compareCommits up to the Promise.all: the commits
\* are scanned and one fetch per kept commit is issued
StartFetches(b, unfilteredCommits, method, filesPresent) ==
  /\ base' = b
  /\ head' = unfilteredCommits[Len(unfilteredCommits)].sha
  /\ extractionMethod' = method
  /\ LET scan == ScanCommits(unfilteredCommits, b) IN
     IF ~filesPresent \/ scan.threw
     THEN /\ hpc' = "failed"
          /\ commits' = <<>>
          /\ responses' = <<>>
          /\ changedFilesCategorized' = <<>>
     ELSE /\ hpc' = "fetching"
          /\ commits' = scan.value
          /\ responses' = InitialResponses(scan.value)
          /\ changedFilesCategorized' = CategorizedFiles

\* run() up to the Promise.all: the diff arrives, the commits are scanned and
\* one fetch per kept commit is issued (the artificial commit gets the dummy
\* response at once)
CompareCommits ==
  /\ hpc = "idle"
  /\ \E b \in BaseRefs, unfilteredCommits \in UnfilteredCommitLists,
        method \in ExtractionMethods, filesPresent \in BOOLEAN :
       StartFetches(b, unfilteredCommits, method, filesPresent)
  /\ UNCHANGED <<response, houtputs, fvars, pvars>>

\* the getContent promise of kept commit i settles: with the file content,
\* with another status than 200, or rejected with one of `errors`, which the
\* catch handler turns into the dummy response
FetchSettlesWith(errors) ==
  /\ hpc = "fetching"
  /\ \E i \in 1..Len(commits) :
       /\ ~responses[i].settled
       /\ \/ \E content \in FileContents :
               responses' = [responses EXCEPT ![i] = Settled(FALSE, content)]
          \/ responses' = [responses EXCEPT ![i] = SettledNot200]
          \/ \E error \in errors :
               responses' =
                 [responses EXCEPT ![i] = CaughtRejection(error, commits[i].sha)]
  /\ UNCHANGED <<hpc, base, head, extractionMethod, changedFilesCategorized,
                 commits, response, houtputs, fvars, pvars>>

\* the fetches of the runs of SpecHistory: a rejection there is a file that
\* is absent at the commit
FetchSettles == FetchSettlesWith({FileAbsent})

\* i-th element of allIterationsOfPackageJson
Iteration(i) ==
  [content |-> responses[i].content, sha |-> commits[i].sha,
   isFallback |-> responses[i].isFallback]

ExtractVersionIgnoresFallback(it, method) ==
  parseVersionFromFileContents(it.content, method)

\* the extraction result for one iteration of the file
ExtractVersion(it, method) ==
  parseVersionFromFileContents(it.content, IF it.isFallback THEN "json" ELSE method)

VersionChangesTagsEarlierCommit(deduplicatedVersions) ==
  [i \in 1..(Len(deduplicatedVersions) - 1) |->
     [oldVersion |-> deduplicatedVersions[i].version,
      newVersion |-> deduplicatedVersions[i + 1].version,
      type |-> getSemverDiffType(deduplicatedVersions[i].version,
                                 deduplicatedVersions[i + 1].version),
      commit |-> deduplicatedVersions[i].sha]]

\* the changes array built from deduplicatedVersions
VersionChanges(deduplicatedVersions) ==
  [i \in 1..(Len(deduplicatedVersions) - 1) |->
     [oldVersion |-> deduplicatedVersions[i].version,
      newVersion |-> deduplicatedVersions[i + 1].version,
      type |-> getSemverDiffType(deduplicatedVersions[i].version,
                                 deduplicatedVersions[i + 1].version),
      commit |-> deduplicatedVersions[i + 1].sha]]

\* run() after the Promise.all: Returned(response) or Threw
\* the orders in which n promises can settle: order[k] is the index of the
\* promise that settles k-th
SettleOrders(n) ==
  { order \in [1..n -> 1..n] : \A i, j \in 1..n : i # j => order[i] # order[j] }

PromiseAllInSettleOrder(results, order) ==
  [k \in 1..Len(results) |-> results[order[k]]]

\* Promise.all over commits.map(...): the fulfilment values in the order of
\* the promises, whatever the order in which they settled
PromiseAll(results, order) == results

\* the rest of run() after the Promise.all, whose array is
\* maybeAllIterationsOfPackageJson
RunAfterFetchOn(maybeAllIterationsOfPackageJson) ==
  LET allIterationsOfPackageJson == maybeAllIterationsOfPackageJson
      deduplicatedVersionsOfPackageJson ==
        deduplicateConsecutive(allIterationsOfPackageJson,
                               [i \in 1..Len(allIterationsOfPackageJson) |->
                                  allIterationsOfPackageJson[i].content],
                               EmptyContent)
      extracted ==
        [i \in 1..Len(deduplicatedVersionsOfPackageJson) |->
           ExtractVersion(deduplicatedVersionsOfPackageJson[i], extractionMethod)]
  IN IF \E i \in 1..Len(commits) : ~responses[i].status200 THEN Threw
     ELSE IF \E i \in 1..Len(extracted) : ~extracted[i].success THEN Threw
     ELSE
       LET allVersionsOfPackageJson ==
             [i \in 1..Len(extracted) |->
                [version |-> extracted[i].version,
                 sha |-> deduplicatedVersionsOfPackageJson[i].sha]]
           deduplicatedVersions ==
             deduplicateConsecutive(allVersionsOfPackageJson,
               [i \in 1..Len(extracted) |-> extracted[i].version], <<>>)
       IN IF Len(deduplicatedVersions) = 0
          THEN Threw   \* deduplicatedVersions[0] is undefined: TypeError
          ELSE
            LET oldVersion == deduplicatedVersions[1].version
                changes == VersionChanges(deduplicatedVersions)
            IN IF \E i \in 1..Len(changes) : changes[i].type = "threw" THEN Threw
               ELSE computeResponseFromChanges(changes, changedFilesCategorized,
                                               oldVersion, base, head)

\* the promise results of the kept commits, in the order of the commits
Iterations == [i \in 1..Len(commits) |-> Iteration(i)]

RunAfterFetch == RunAfterFetchOn(Iterations)

CommonOutputs ==
  {"changed", "oldVersion", "newVersion", "commitBase", "commitHead",
   "changedFiles", "changes", "json"}

EmitResponse(r) ==
  CommonOutputs \cup (IF r.changed THEN {"type", "commitResponsible"} ELSE {})

\* all fetches settled: the rest of run() and the emission of the outputs,
\* or core.setFailed
\* the fetches settled in one of `orders`
FinishSettledIn(orders) ==
  /\ hpc = "fetching"
  /\ \A i \in 1..Len(commits) : responses[i].settled
  /\ \E order \in orders :
       LET r == RunAfterFetchOn(PromiseAll(Iterations, order)) IN
         IF r.threw
         THEN hpc' = "failed" /\ UNCHANGED <<response, houtputs>>
         ELSE /\ hpc' = "done"
              /\ response' = r.value
              /\ houtputs' = EmitResponse(r.value)
  /\ UNCHANGED <<base, head, extractionMethod, changedFilesCategorized,
                 commits, responses, fvars, pvars>>

\* the order of the commits, one of the orders the fetches can settle in
CommitOrder == [i \in 1..Len(commits) |-> i]

Finish == FinishSettledIn({CommitOrder})

InitHistory == FnIdle /\ PublishIdle /\ HistoryIdle

NextHistory == CompareCommits \/ FetchSettles \/ Finish

SpecHistory == InitHistory /\ [][NextHistory]_vars

\* ------------------------------------------------------------------------
\* version-metadata : determineBaseAndHead and the start of run()
\* (SpecResolve)
\* ------------------------------------------------------------------------
ZeroShaLength == 40

\* '0'.repeat(40)
ZeroSha == [i \in 1..ZeroShaLength |-> "0"]

\* the event contexts: an absent payload field is Null
EventNames == {"pull_request", "push", "merge_group", "workflow_dispatch"}

Contexts ==
  [ eventName : EventNames,
    before : {Null, ZeroSha, [i \in 1..(ZeroShaLength - 1) |-> "0"], <<"b", "e", "f">>},
    after : {Null, <<"a", "f", "t">>},
    pullRequestBaseSha : {Null, <<"p", "r", "b">>},
    pullRequestHeadSha : {Null, <<"p", "r", "h">>},
    mergeGroupBaseSha : {Null, <<"m", "g", "b">>},
    mergeGroupHeadSha : {Null, <<"m", "g", "h">>} ]

determineBaseAndHeadKeepsZeros(context) ==
  IF context.eventName \notin {"pull_request", "push", "merge_group"} THEN Threw
  ELSE
    LET b == CASE context.eventName = "pull_request" -> context.pullRequestBaseSha
               [] context.eventName = "push" -> context.before
               [] context.eventName = "merge_group" -> context.mergeGroupBaseSha
        h == CASE context.eventName = "pull_request" -> context.pullRequestHeadSha
               [] context.eventName = "push" -> context.after
               [] context.eventName = "merge_group" -> context.mergeGroupHeadSha
    IN IF h = Null THEN Threw ELSE Returned([base |-> b, head |-> h])

\* Returned([base, head]) with base Null for undefined, or Threw
determineBaseAndHead(context) ==
  IF context.eventName \notin {"pull_request", "push", "merge_group"} THEN Threw
  ELSE
    LET b == CASE context.eventName = "pull_request" -> context.pullRequestBaseSha
               [] context.eventName = "push" ->
                    IF context.before = ZeroSha THEN Null ELSE context.before
               [] context.eventName = "merge_group" -> context.mergeGroupBaseSha
        h == CASE context.eventName = "pull_request" -> context.pullRequestHeadSha
               [] context.eventName = "push" -> context.after
               [] context.eventName = "merge_group" -> context.mergeGroupHeadSha
    IN IF h = Null THEN Threw ELSE Returned([base |-> b, head |-> h])

\* what backtrackToFirstBranchRef(head) can answer: the commit where the new
\* ref branched off, or the initial commit of the repository
BacktrackResults ==
  { [sha |-> <<"b", "t", "k">>, type |-> "branch-point"],
    [sha |-> <<"b", "t", "k">>, type |-> "initial"] }

\* run() from its start to its first await: the base and head are taken
\* from the event; without a base the run backtracks from head, otherwise it
\* requests the comparison of base and head
ResolveFromEvent ==
  /\ hpc = "idle"
  /\ FnIdle
  /\ \E context \in Contexts :
       LET r == determineBaseAndHead(context) IN
       /\ fname' = "determineBaseAndHead"
       /\ fargs' = context
       /\ fret' = r
       /\ IF r.threw
          THEN hpc' = "failed" /\ UNCHANGED <<base, head>>
          ELSE /\ base' = r.value.base
               /\ head' = r.value.head
               /\ hpc' = IF r.value.base = Null THEN "backtracking" ELSE "comparing"
  /\ UNCHANGED <<extractionMethod, changedFilesCategorized, commits, responses,
                 response, houtputs, pvars>>

\* backtrackToFirstBranchRef answers: its commit becomes the base
Backtracked ==
  /\ hpc = "backtracking"
  /\ \E bt \in BacktrackResults :
       /\ fname' = "backtrackToFirstBranchRef"
       /\ fret' = Returned(bt)
       /\ base' = bt.sha
  /\ hpc' = "comparing"
  /\ UNCHANGED <<fargs, head, extractionMethod, changedFilesCategorized, commits,
                 responses, response, houtputs, pvars>>

\* the provider's answers for a comparison of b and h: the base commit
\* followed by the head commit, each an ordinary, a root or a merge commit
RangeLists(b, h) ==
  { << [sha |-> b, parents |-> p1], [sha |-> h, parents |-> p2] >> :
      p1 \in {<<>>, <<ExternalSha>>, <<ExternalSha, ExternalSha>>},
      p2 \in {<<b>>, <<b, ExternalSha>>, <<ExternalSha, b>>} }

\* compareCommits(base, head) answers and run() continues to the Promise.all
CompareResolved ==
  /\ hpc = "comparing"
  /\ \E unfilteredCommits \in RangeLists(base, head), filesPresent \in BOOLEAN :
       StartFetches(base, unfilteredCommits, "json", filesPresent)
  /\ UNCHANGED <<response, houtputs, fvars, pvars>>

InitResolve == FnIdle /\ PublishIdle /\ HistoryIdle

NextResolve ==
  ResolveFromEvent \/ Backtracked \/ CompareResolved \/ FetchSettles \/ Finish

SpecResolve == InitResolve /\ [][NextResolve]_vars

\* ------------------------------------------------------------------------
\* The merge-commit scan of run() on its own (SpecScan)
\* ------------------------------------------------------------------------
\* the base refs of BaseRefs and a shortened SHA of the base commit
ScanBaseRefs == BaseRefs \cup { SubSeq(ShaOf(1), 1, 2) }

CallScanCommits ==
  /\ FnIdle
  /\ \E unfilteredCommits \in UnfilteredCommitLists, b \in ScanBaseRefs :
       /\ fname' = "ScanCommits"
       /\ fargs' = [unfilteredCommits |-> unfilteredCommits, base |-> b]
       /\ fret' = ScanCommits(unfilteredCommits, b)
  /\ UNCHANGED <<pvars, hvars>>

InitScan == FnIdle /\ PublishIdle /\ HistoryIdle

NextScan == CallScanCommits

SpecScan == InitScan /\ [][NextScan]_vars

\* ------------------------------------------------------------------------
\* deduplicateConsecutive on its own (SpecDedup)
\* ------------------------------------------------------------------------
\* the values the accessor can return: the empty string (falsy) and two
\* non-empty strings
DedupKeys == { <<>>, <<"A">>, <<"B">> }

\* the input arrays: element i is { key, id: i }; the accessor is (x) => x.key
RECURSIVE DedupInputs(_)
DedupInputs(n) ==
  IF n = 0 THEN {<<>>}
  ELSE DedupInputs(n - 1) \cup
       { Append(l, [key |-> k, id |-> Len(l) + 1]) :
           l \in { m \in DedupInputs(n - 1) : Len(m) = n - 1 }, k \in DedupKeys }

KeysOf(items) == [i \in 1..Len(items) |-> items[i].key]

\* arr.reduce(deduplicateConsecutive((x) => x.key), { list: [], last: undefined }).list
CallDeduplicateConsecutive ==
  /\ FnIdle
  /\ \E items \in DedupInputs(MaxDedupLen) :
       /\ fname' = "deduplicateConsecutive"
       /\ fargs' = items
       /\ fret' = deduplicateConsecutive(items, KeysOf(items), <<>>)
  /\ UNCHANGED <<pvars, hvars>>

\* the same reduction, with a fresh accumulator, applied to the list the
\* first one returned
CallDeduplicateConsecutiveAgain ==
  /\ fname = "deduplicateConsecutive"
  /\ fname' = "deduplicateConsecutive again"
  /\ fargs' = fret
  /\ fret' = deduplicateConsecutive(fret, KeysOf(fret), <<>>)
  /\ UNCHANGED <<pvars, hvars>>

InitDedup == FnIdle /\ PublishIdle /\ HistoryIdle

NextDedup == CallDeduplicateConsecutive \/ CallDeduplicateConsecutiveAgain

SpecDedup == InitDedup /\ [][NextDedup]_vars

\* ------------------------------------------------------------------------
\* run() on a range of two commits with every kind of fetch rejection
\* (SpecFetch)
\* ------------------------------------------------------------------------
CompareTwoCommits ==
  /\ hpc = "idle"
  /\ \E unfilteredCommits \in RangeLists(ShaOf(1), ShaOf(2)),
        method \in ExtractionMethods, filesPresent \in BOOLEAN :
       StartFetches(ShaOf(1), unfilteredCommits, method, filesPresent)
  /\ UNCHANGED <<response, houtputs, fvars, pvars>>

FetchSettlesOrFails == FetchSettlesWith(FetchErrors)

InitFetch == FnIdle /\ PublishIdle /\ HistoryIdle

\* the fetches settled in any order
FinishInAnyOrder == FinishSettledIn(SettleOrders(Len(commits)))

NextFetch == CompareTwoCommits \/ FetchSettlesOrFails \/ FinishInAnyOrder

SpecFetch == InitFetch /\ [][NextFetch]_vars

\* ------------------------------------------------------------------------
\* categorizeChangedFiles on its own (SpecCategorize)
\* ------------------------------------------------------------------------
FileStatuses ==
  {"added", "modified", "removed", "renamed", "copied", "changed", "unchanged"}

\* one iteration of the for loop with a copied file counted as added
PushFileCopiedIsAdded(acc, file) ==
  [k \in DOMAIN acc |->
     IF k = "all" \/ k = file.status \/ (k = "added" /\ file.status = "copied")
     THEN Append(acc[k], file.filename) ELSE acc[k]]

\* one iteration of the for loop: all.push, then the switch on file.status
PushFile(acc, file) ==
  [all |-> Append(acc.all, file.filename),
   added |-> IF file.status = "added" THEN Append(acc.added, file.filename)
             ELSE acc.added,
   modified |-> IF file.status = "modified" THEN Append(acc.modified, file.filename)
                ELSE acc.modified,
   removed |-> IF file.status = "removed" THEN Append(acc.removed, file.filename)
               ELSE acc.removed,
   renamed |-> IF file.status = "renamed" THEN Append(acc.renamed, file.filename)
               ELSE acc.renamed]

RECURSIVE CategorizeFrom(_, _, _)
CategorizeFrom(changedFiles, i, acc) ==
  IF i > Len(changedFiles) THEN acc
  ELSE CategorizeFrom(changedFiles, i + 1, PushFile(acc, changedFiles[i]))

categorizeChangedFiles(changedFiles) ==
  CategorizeFrom(changedFiles, 1,
                 [all |-> <<>>, added |-> <<>>, modified |-> <<>>,
                  removed |-> <<>>, renamed |-> <<>>])

\* the file records of the provider: a path of Paths with a status
ChangedFileRecords == [status : FileStatuses, filename : Paths]

CallCategorizeChangedFiles ==
  /\ FnIdle
  /\ \E changedFiles \in ListsUpTo(ChangedFileRecords, MaxChangedFiles) :
       /\ fname' = "categorizeChangedFiles"
       /\ fargs' = changedFiles
       /\ fret' = categorizeChangedFiles(changedFiles)
  /\ UNCHANGED <<pvars, hvars>>

InitCategorize == FnIdle /\ PublishIdle /\ HistoryIdle

NextCategorize == CallCategorizeChangedFiles

SpecCategorize == InitCategorize /\ [][NextCategorize]_vars

\* ------------------------------------------------------------------------
\* Consecutive runs of the publish action, each emitted version published
\* and handed to the next run as latest-registry-version (SpecReleases)
\* ------------------------------------------------------------------------
\* the version in the registry before the first run
InitialRegistryVersion == Ver(<<"1">>, <<"0">>, <<"0">>)

\* CI_PUBLISHED_VERSION of the workflow: the version published last
LatestRegistryVersion ==
  IF published = <<>> THEN InitialRegistryVersion ELSE published[Len(published)]

\* the versions of the tracked file
ReleaseFileVersions == { Ver(<<"1">>, <<"0">>, <<"0">>), Ver(<<"1">>, <<"0">>, <<"1">>) }

\* inputs of a run of the workflow: the metadata of a range in which the
\* file's version changed or not, with or without a relevant file
ReleaseInputs ==
  { in \in [ incrementType : {"pre-release", "patch"},
             relevantFilesGlobs : { << <<"lib", "**">> >> },
             latestRegistryVersion : {LatestRegistryVersion},
             versionMetadata :
               [ changed : BOOLEAN,
                 oldVersion : ReleaseFileVersions,
                 newVersion : ReleaseFileVersions,
                 changedFiles : [ all : { <<>>, << <<"lib", "a.ts">> >> } ] ] ] :
      in.versionMetadata.changed <=>
        in.versionMetadata.oldVersion # in.versionMetadata.newVersion }

ReleaseRun ==
  /\ Len(published) < MaxRuns
  /\ PublishMainOn(ReleaseInputs)

\* the workflow step after the action: publish the emitted version if
\* publish is true; the next run starts from there
PublishToRegistry ==
  /\ ppc = "done"
  /\ ppc' = "idle"
  /\ published' = IF decision.publish THEN Append(published, decision.version)
                  ELSE published
  /\ UNCHANGED <<inputs, decision, outputs, fvars, hvars>>

InitReleases == FnIdle /\ PublishIdle /\ HistoryIdle

NextReleases == ReleaseRun \/ PublishToRegistry

SpecReleases == InitReleases /\ [][NextReleases]_vars

\* ------------------------------------------------------------------------
\* Properties of the publish decision
\* ------------------------------------------------------------------------
\* the process ran on inputs that pass validation
RanOnValidInputs == ppc # "idle" /\ InputsValid(inputs)

\* some changed file matches some relevant-files glob
SomeFileRelevant ==
  LET all == inputs.versionMetadata.changedFiles.all
      globs == inputs.relevantFilesGlobs
  IN \E i \in 1..Len(all), j \in 1..Len(globs) : GlobMatches(all[i], globs[j])

DetectedNonLinear == inputs.versionMetadata.newVersion = inputs.latestRegistryVersion

\* C1: whenever the metadata says changed = true and its newVersion differs
\* from latestRegistryVersion, the run ends with publish = true and
\* version = newVersion, whatever the files, globs and increment type are.
C1_ExplicitBumpPublishesNewVersion ==
  (RanOnValidInputs /\ inputs.versionMetadata.changed /\ ~DetectedNonLinear) =>
    /\ ppc = "done"
    /\ decision.publish
    /\ decision.version = inputs.versionMetadata.newVersion
    /\ "version" \in DOMAIN outputs
    /\ outputs["version"] = inputs.versionMetadata.newVersion
    /\ outputs["publish"] = "true"

\* an explicit bump 1.0.0 -> 1.0.1 with registry 1.0.0 and no relevant file
C1_Witness ==
  /\ ppc = "done"
  /\ inputs.versionMetadata.changed
  /\ inputs.versionMetadata.newVersion = <<"1", ".", "0", ".", "1">>
  /\ inputs.latestRegistryVersion = <<"1", ".", "0", ".", "0">>
  /\ ~SomeFileRelevant
  /\ decision.publish
  /\ decision.version = <<"1", ".", "0", ".", "1">>

\* C2: whenever the metadata says changed = false and no changed file
\* matches a relevant-files glob, the run ends with publish = false and no
\* version, for every latestRegistryVersion.
C2_NothingRelevantNoPublish ==
  (RanOnValidInputs /\ ~inputs.versionMetadata.changed /\ ~SomeFileRelevant) =>
    /\ ppc = "done"
    /\ ~decision.publish
    /\ decision.version = <<>>
    /\ "version" \notin DOMAIN outputs

\* C3: whenever the metadata says changed = true and its newVersion equals
\* latestRegistryVersion, the run ends with publish = true and the version is
\* incrementVersion(latestRegistryVersion, incrementType), which is never
\* newVersion itself.
C3_NonLinearHistoryIncrements ==
  (RanOnValidInputs /\ inputs.versionMetadata.changed /\ DetectedNonLinear) =>
    /\ ppc = "done"
    /\ decision.publish
    /\ decision.version =
         incrementVersion(inputs.latestRegistryVersion, inputs.incrementType).value
    /\ decision.version # inputs.versionMetadata.newVersion
    /\ outputs["version"] # inputs.versionMetadata.newVersion

\* changed = true, newVersion = registry = 1.0.1, nothing relevant changed:
\* 1.0.2-0 is published instead of 1.0.1
C3_Witness ==
  /\ ppc = "done"
  /\ inputs.versionMetadata.changed
  /\ inputs.versionMetadata.newVersion = <<"1", ".", "0", ".", "1">>
  /\ inputs.latestRegistryVersion = <<"1", ".", "0", ".", "1">>
  /\ inputs.incrementType = "pre-release"
  /\ ~SomeFileRelevant
  /\ decision.publish
  /\ decision.version = <<"1", ".", "0", ".", "2", "-", "0">>

\* C4: whenever (changed = false or newVersion = latestRegistryVersion) and
\* some changed file matches a relevant-files glob, the run ends with
\* publish = true and version = incrementVersion(latestRegistryVersion,
\* incrementType): the increment starts from the registry version.
C4_AutoIncrementFromRegistry ==
  (/\ RanOnValidInputs
   /\ (~inputs.versionMetadata.changed \/ DetectedNonLinear)
   /\ SomeFileRelevant) =>
    /\ ppc = "done"
    /\ decision.publish
    /\ decision.version =
         incrementVersion(inputs.latestRegistryVersion, inputs.incrementType).value
    /\ outputs["version"] = decision.version

\* unchanged file version 1.0.0, registry 0.0.40, lib/a.ts changed: 0.0.41-0
C4_Witness ==
  /\ ppc = "done"
  /\ ~inputs.versionMetadata.changed
  /\ inputs.versionMetadata.newVersion = <<"1", ".", "0", ".", "0">>
  /\ inputs.latestRegistryVersion = <<"0", ".", "0", ".", "4", "0">>
  /\ inputs.incrementType = "pre-release"
  /\ inputs.versionMetadata.changedFiles.all = << <<"lib", "a.ts">> >>
  /\ SomeFileRelevant
  /\ decision.publish
  /\ decision.version = <<"0", ".", "0", ".", "4", "1", "-", "0">>

\* C5: in every decision produced, a version is present and emitted as the
\* `version` output if and only if publish is true; `publish` and `reason`
\* are always emitted.
C5_VersionIffPublish ==
  ppc = "done" =>
    /\ decision.publish <=> decision.version # <<>>
    /\ decision.publish <=> "version" \in DOMAIN outputs
    /\ "version" \in DOMAIN outputs => outputs["version"] = decision.version
    /\ {"publish", "reason"} \subseteq DOMAIN outputs
    /\ outputs["publish"] = (IF decision.publish THEN "true" ELSE "false")

\* a run that decides not to publish emits publish and reason but no version
C5_Witness ==
  /\ ppc = "done"
  /\ ~decision.publish
  /\ DOMAIN outputs = {"publish", "reason", "json"}

\* ------------------------------------------------------------------------
\* Properties of incrementVersion
\* ------------------------------------------------------------------------
\* numeric value of a digit string, read digit by digit
RECURSIVE DigitsValue(_)
DigitsValue(d) ==
  IF Len(d) = 0 THEN 0
  ELSE DigitsValue(SubSeq(d, 1, Len(d) - 1)) * 10 + DigitVal(d[Len(d)])

IncrementCalled == fname = "incrementVersion"

\* the result the four-way reference algorithm prescribes for the call in fargs
ReferenceIncrement ==
  LET M == DigitsValue(fargs.major)
      m == DigitsValue(fargs.minor)
      pt == DigitsValue(fargs.patch)
      t == fargs.type
  IN IF t = "pre-release"
       THEN IF fargs.preRelease = <<>>
            THEN VerPre(NumToString(M), NumToString(m), NumToString(pt + 1), <<"0">>)
            ELSE VerPre(NumToString(M), NumToString(m), NumToString(pt),
                        NumToString(DigitsValue(fargs.preRelease) + 1))
     ELSE IF t = "patch" THEN Ver(NumToString(M), NumToString(m), NumToString(pt + 1))
     ELSE IF t = "minor" THEN Ver(NumToString(M), NumToString(m + 1), <<"0">>)
     ELSE Ver(NumToString(M + 1), <<"0">>, <<"0">>)

DiffCalled == fname = "getSemverDiffType"

\* C8: getSemverDiffType returns the label of the first component that
\* differs in the order major, minor, patch, pre-release, whatever the later
\* components are; a suffix present on one side only, or a different suffix,
\* with equal major.minor.patch gives "pre-release" in both directions;
\* identical strings give "equal".
C8_FirstDifferingComponent ==
  DiffCalled =>
    LET A == fargs.A
        B == fargs.B
    IN /\ DigitsValue(A.major) # DigitsValue(B.major) => fret = "major"
       /\ (/\ DigitsValue(A.major) = DigitsValue(B.major)
           /\ DigitsValue(A.minor) # DigitsValue(B.minor)) => fret = "minor"
       /\ (/\ DigitsValue(A.major) = DigitsValue(B.major)
           /\ DigitsValue(A.minor) = DigitsValue(B.minor)
           /\ DigitsValue(A.patch) # DigitsValue(B.patch)) => fret = "patch"
       /\ (/\ DigitsValue(A.major) = DigitsValue(B.major)
           /\ DigitsValue(A.minor) = DigitsValue(B.minor)
           /\ DigitsValue(A.patch) = DigitsValue(B.patch)
           /\ A.preRelease # B.preRelease) => fret = "pre-release"
       /\ VersionOf(A) = VersionOf(B) => fret = "equal"

\* 1.0.0-5 against 1.0.0 is "pre-release"
C8_Witness ==
  /\ DiffCalled
  /\ VersionOf(fargs.A) = <<"1", ".", "0", ".", "0", "-", "5">>
  /\ VersionOf(fargs.B) = <<"1", ".", "0", ".", "0">>
  /\ fret = "pre-release"

\* ------------------------------------------------------------------------
\* Properties of the history reconstruction (SpecHistory)
\* ------------------------------------------------------------------------
HistoryReturned == hpc = "done"

LastChange == response.changes[Len(response.changes)]

\* C9: every result of the History Reconstructor has one of two shapes.
\* changed = false: newVersion = oldVersion and changes is empty (and neither
\* type nor commitResponsible is emitted). changed = true: changes is
\* non-empty, newVersion differs from oldVersion and is the newVersion of the
\* last change, commitResponsible is the commit of the last change, and type
\* is the classifier applied to (oldVersion, newVersion) of the whole range.
C9_ResultShape ==
  HistoryReturned =>
    /\ ~response.changed =>
         /\ response.newVersion = response.oldVersion
         /\ response.changes = <<>>
         /\ houtputs = CommonOutputs
    /\ response.changed =>
         /\ Len(response.changes) > 0
         /\ response.newVersion # response.oldVersion
         /\ response.newVersion = LastChange.newVersion
         /\ response.commitResponsible = LastChange.commit
         /\ response.type = getSemverDiffType(response.oldVersion, response.newVersion)
         /\ response.type \in {"major", "minor", "patch", "pre-release"}
         /\ houtputs = CommonOutputs \cup {"type", "commitResponsible"}

\* a changed result over two changes whose range type differs from the type
\* of its last change (0.0.0 -> 1.0.0 -> 1.0.1 is "major", the last "patch")
C9_Witness ==
  /\ HistoryReturned
  /\ response.changed
  /\ Len(response.changes) = 2
  /\ response.type = "major"
  /\ LastChange.type = "patch"

\* the version extracted from the file as fetched at kept commit i
ExtractAt(i) == ExtractVersion(Iteration(i), extractionMethod)

\* C10: in every run that returns a result, oldVersion is the version
\* extracted at the oldest kept commit and newVersion is the version
\* extracted at the newest kept commit.
C10_OldestAndNewestVersion ==
  HistoryReturned =>
    /\ ExtractAt(1).success
    /\ response.oldVersion = ExtractAt(1).version
    /\ ExtractAt(Len(commits)).success
    /\ response.newVersion = ExtractAt(Len(commits)).version

\* the run got past the fetches and ended, with a result or in failure
HistoryFinished == hpc \in {"done", "failed"} /\ Len(commits) > 0

\* the kept commits whose fetched content is not empty, oldest first, each
\* with the version text its content holds
RECURSIVE VersionedCommitsFrom(_)
VersionedCommitsFrom(i) ==
  IF i > Len(commits) THEN <<>>
  ELSE IF responses[i].content = EmptyContent THEN VersionedCommitsFrom(i + 1)
  ELSE <<[version |-> responses[i].content.version, sha |-> commits[i].sha]>>
         \o VersionedCommitsFrom(i + 1)

VersionedCommits == VersionedCommitsFrom(1)

\* the version sequence goes A, ..., B, ..., A with B different from A
ReturnsToStartingVersion ==
  /\ Len(VersionedCommits) > 0
  /\ VersionedCommits[Len(VersionedCommits)].version = VersionedCommits[1].version
  /\ \E k \in 1..Len(VersionedCommits) :
       VersionedCommits[k].version # VersionedCommits[1].version

\* C11: when the versions at the examined commits change and then end on
\* the version they started with (A, B, A), the result is changed = false
\* with newVersion = oldVersion = A and an empty changes list, and neither
\* type nor commitResponsible is emitted.
C11_ReturnToStartIsUnchanged ==
  (HistoryReturned /\ ReturnsToStartingVersion) =>
    /\ ~response.changed
    /\ response.oldVersion = VersionedCommits[1].version
    /\ response.newVersion = response.oldVersion
    /\ response.changes = <<>>
    /\ houtputs = CommonOutputs

\* 1.0.0, 1.0.1, 1.0.0 at three kept commits, returned as unchanged
C11_Witness ==
  /\ HistoryReturned
  /\ Len(commits) = 3
  /\ Len(VersionedCommits) = 3
  /\ VersionedCommits[1].version = Ver(<<"1">>, <<"0">>, <<"0">>)
  /\ VersionedCommits[2].version = Ver(<<"1">>, <<"0">>, <<"1">>)
  /\ VersionedCommits[3].version = Ver(<<"1">>, <<"0">>, <<"0">>)
  /\ ~response.changed

\* one entry per kept commit whose version differs from the version at the
\* previous kept commit with a non-empty content
RECURSIVE ReferenceChangesFrom(_)
ReferenceChangesFrom(k) ==
  IF k > Len(VersionedCommits) THEN <<>>
  ELSE IF VersionedCommits[k].version = VersionedCommits[k - 1].version
  THEN ReferenceChangesFrom(k + 1)
  ELSE <<[oldVersion |-> VersionedCommits[k - 1].version,
          newVersion |-> VersionedCommits[k].version,
          type |-> getSemverDiffType(VersionedCommits[k - 1].version,
                                     VersionedCommits[k].version),
          commit |-> VersionedCommits[k].sha]>> \o ReferenceChangesFrom(k + 1)

ReferenceChanges == ReferenceChangesFrom(2)

\* C12: the changes list holds, in chronological order, exactly one entry
\* per kept commit at which the version differs from the version before it:
\* the entry carries the two versions, the SHA of that commit (the earliest
\* commit of the run of commits holding the new version) and the
\* classifier's result for the pair; commits that leave the version
\* unchanged produce no entry. A result reports this list when changed, and
\* an empty list only if there is no such commit or the versions end on
\* oldVersion again.
C12_OneChangePerVersionTransition ==
  HistoryReturned =>
    /\ response.changed => response.changes = ReferenceChanges
    /\ ~response.changed =>
         \/ ReferenceChanges = <<>>
         \/ ReferenceChanges[Len(ReferenceChanges)].newVersion = response.oldVersion

\* four kept commits holding 0.0.0, 1.0.0, 1.0.0, 1.0.1: entries for the
\* second and the fourth only
C12_Witness ==
  /\ HistoryReturned
  /\ Len(commits) = 4
  /\ Len(VersionedCommits) = 4
  /\ VersionedCommits[2].version = VersionedCommits[3].version
  /\ Len(response.changes) = 2
  /\ response.changes[1].commit = commits[2].sha
  /\ response.changes[2].commit = commits[4].sha
  /\ response.changes[2].type = "patch"

\* C13: when the examined commit list starts with the sentinel of a root
\* commit, the sentinel (no SHA) is directly followed by that commit, it is
\* never fetched and contributes 0.0.0, and the result has oldVersion 0.0.0;
\* when the root commit is the only other examined commit and its file holds
\* a version v other than 0.0.0, the result is changed with newVersion v and
\* the single change 0.0.0 -> v at the root commit.
C13_InitialCommitFallback ==
  (HistoryReturned /\ commits[1].sha = Null) =>
    /\ Len(commits) >= 2
    /\ commits[2].sha # Null
    /\ responses[1].isFallback
    /\ response.oldVersion = ZeroVersion
    /\ ( /\ Len(commits) = 2
         /\ responses[2].content # EmptyContent
         /\ responses[2].content.version # ZeroVersion )
       => /\ response.changed
          /\ response.newVersion = responses[2].content.version
          /\ Len(response.changes) = 1
          /\ response.changes[1].oldVersion = ZeroVersion
          /\ response.changes[1].commit = commits[2].sha

\* a root commit holding 1.0.0: 0.0.0 -> 1.0.0, a major change
C13_Witness ==
  /\ HistoryReturned
  /\ Len(commits) = 2
  /\ commits[1].sha = Null
  /\ ~responses[2].isFallback
  /\ response.changed
  /\ response.oldVersion = ZeroVersion
  /\ response.newVersion = Ver(<<"1">>, <<"0">>, <<"0">>)
  /\ response.type = "major"

\* what can make a run fail once all fetches have settled, stated on the
\* fetched responses: a status other than 200, ...
SomeStatusNot200 == \E i \in 1..Len(commits) : ~responses[i].status200

\* ... a fetched file content the selected strategy cannot turn into a
\* version (nothing to extract, or for regex and command a captured text
\* that is not a semver version), ...
Unextractable(i) ==
  /\ ~responses[i].isFallback
  /\ responses[i].content # EmptyContent
  /\ \/ responses[i].content.kind = "unparsable"
     \/ /\ extractionMethod # "json"
        /\ ~semverSchema(responses[i].content.version)

\* ... no content at any commit, ...
NoContentAtAll == \A i \in 1..Len(commits) : responses[i].content = EmptyContent

\* ... or two fetched versions that differ as texts but not as numbers
Unclassifiable ==
  \E i, j \in 1..Len(commits) :
    /\ ~responses[i].isFallback /\ responses[i].content.kind = "versioned"
    /\ ~responses[j].isFallback /\ responses[j].content.kind = "versioned"
    /\ getSemverDiffType(responses[i].content.version,
                         responses[j].content.version) = "threw"

\* C14: a commit whose content fetch failed never makes the run abort and
\* contributes version 0.0.0, whatever the extraction strategy: a run fails
\* after the fetches only for a cause at a commit that did not fall back, a
\* run in which every fetch fell back returns the unchanged result 0.0.0,
\* and a fallback at the oldest (newest) examined commit gives oldVersion
\* (newVersion) 0.0.0.
C14_FetchFailureFallsBackToZero ==
  /\ (HistoryFinished /\ hpc = "failed") =>
       \/ SomeStatusNot200
       \/ \E i \in 1..Len(commits) : Unextractable(i)
       \/ NoContentAtAll
       \/ Unclassifiable
  /\ (HistoryFinished /\ \A i \in 1..Len(commits) : responses[i].isFallback) =>
       /\ hpc = "done"
       /\ ~response.changed
       /\ response.oldVersion = ZeroVersion
  /\ HistoryReturned =>
       /\ responses[1].isFallback => response.oldVersion = ZeroVersion
       /\ responses[Len(commits)].isFallback => response.newVersion = ZeroVersion

\* regex extraction, the file is absent at the base commit and holds 1.0.0
\* at the next one: 0.0.0 -> 1.0.0
C14_Witness ==
  /\ HistoryReturned
  /\ extractionMethod = "regex"
  /\ Len(commits) = 2
  /\ commits[1].sha # Null
  /\ responses[1].isFallback
  /\ ~responses[2].isFallback
  /\ response.changed
  /\ response.oldVersion = ZeroVersion
  /\ response.newVersion = Ver(<<"1">>, <<"0">>, <<"0">>)

\* C15: if the content fetched for an examined commit cannot be turned into
\* a version by the selected strategy, the run ends in failure: no result is
\* produced and no output is emitted (no 0.0.0 default); and a failed run
\* never has emitted any output.
C15_ExtractionErrorIsFatal ==
  /\ (HistoryFinished /\ \E i \in 1..Len(commits) : Unextractable(i)) =>
       /\ hpc = "failed"
       /\ houtputs = {}
       /\ response = NoResponse
  /\ hpc = "failed" => houtputs = {} /\ response = NoResponse

\* the file holds 1.0.0 at the base commit and nothing to extract at the
\* head commit: the run fails although every fetch succeeded
C15_Witness ==
  /\ hpc = "failed"
  /\ Len(commits) = 2
  /\ ~SomeStatusNot200
  /\ responses[1].content.kind = "versioned"
  /\ ~responses[2].isFallback
  /\ responses[2].content.kind = "unparsable"
  /\ houtputs = {}

\* ------------------------------------------------------------------------
\* Properties of the publish input validation (Spec)
\* ------------------------------------------------------------------------
\* the run was rejected: no decision was computed and nothing was emitted
PublishRejected ==
  /\ ppc = "failed"
  /\ decision = NoDecision
  /\ DOMAIN outputs = {}

EventBase(context) ==
  CASE context.eventName = "pull_request" -> context.pullRequestBaseSha
    [] context.eventName = "push" -> context.before
    [] context.eventName = "merge_group" -> context.mergeGroupBaseSha
    [] OTHER -> Null

EventHead(context) ==
  CASE context.eventName = "pull_request" -> context.pullRequestHeadSha
    [] context.eventName = "push" -> context.after
    [] context.eventName = "merge_group" -> context.mergeGroupHeadSha
    [] OTHER -> Null

SupportedEvent(context) ==
  context.eventName \in {"pull_request", "push", "merge_group"}

\* the event supplies no base: the field is absent, or it is the `before`
\* of a push and consists of forty zeros
EventHasNoBase(context) ==
  \/ EventBase(context) = Null
  \/ context.eventName = "push" /\ context.before = ZeroSha

\* C17: a run started from an event takes head and base from
\* pull_request.head.sha/base.sha, after/before or
\* merge_group.head_sha/base_sha according to the event's kind; any other
\* event or a missing head fails the run before anything else happens; a
\* run without base (forty zeros as `before` of a push) does not fail for
\* that: it backtracks from head, continues with the commit found as base,
\* and its result reports that base and the event's head.
C17_BaseAndHeadResolution ==
  fname # "none" =>
    /\ (~SupportedEvent(fargs) \/ EventHead(fargs) = Null) =>
         /\ hpc = "failed"
         /\ fret = Threw
         /\ commits = <<>>
         /\ houtputs = {}
    /\ (SupportedEvent(fargs) /\ EventHead(fargs) # Null) =>
         /\ fret # Threw
         /\ head = EventHead(fargs)
         /\ ~EventHasNoBase(fargs) =>
              /\ fname = "determineBaseAndHead"
              /\ base = EventBase(fargs)
              /\ hpc # "backtracking"
         /\ EventHasNoBase(fargs) =>
              \/ hpc = "backtracking" /\ base = Null
              \/ /\ fname = "backtrackToFirstBranchRef"
                 /\ hpc # "backtracking"
                 /\ base = fret.value.sha
         /\ HistoryReturned =>
              /\ response.commitBase = base
              /\ response.commitHead = EventHead(fargs)

\* a push of a new branch (`before` is forty zeros) that backtracked to the
\* branch point and returned a result for the range from there to `after`
C17_Witness ==
  /\ HistoryReturned
  /\ fargs.eventName = "push"
  /\ fargs.before = ZeroSha
  /\ fname = "backtrackToFirstBranchRef"
  /\ fret.value.type = "branch-point"
  /\ response.commitBase = fret.value.sha
  /\ response.commitHead = fargs.after
  /\ response.changed

\* ------------------------------------------------------------------------
\* Properties of the merge-commit scan (SpecScan)
\* ------------------------------------------------------------------------
\* the filter as a rule per commit, given the commits kept before it: a
\* commit with one parent is kept; a merge commit is kept iff the base is a
\* prefix of its SHA or its first parent is the most recently kept commit;
\* a root commit is kept behind its artificial parent
RECURSIVE FilterFrom(_, _, _, _)
FilterFrom(unfilteredCommits, b, i, kept) ==
  IF i > Len(unfilteredCommits) THEN kept
  ELSE LET commit == unfilteredCommits[i]
           keep ==
             \/ Len(commit.parents) = 1
             \/ /\ Len(commit.parents) >= 2
                /\ \/ StartsWith(commit.sha, b)
                   \/ /\ Len(kept) > 0
                      /\ kept[Len(kept)].sha = commit.parents[1]
       IN FilterFrom(unfilteredCommits, b, i + 1,
            IF Len(commit.parents) = 0
            THEN kept \o <<[sha |-> Null], [sha |-> commit.sha]>>
            ELSE IF keep THEN Append(kept, [sha |-> commit.sha])
            ELSE kept)

ScanCalled == fname = "ScanCommits"

\* C18: the scan of the base commit followed by the range commits keeps
\* every commit with exactly one parent, keeps a commit with two or more
\* parents if and only if the supplied base is a prefix of its SHA or its
\* first parent is the most recently kept commit at that point of the scan,
\* and drops every other merge commit.
C18_MergeCommitFilter ==
  ScanCalled =>
    /\ ~fret.threw
    /\ fret.value = FilterFrom(fargs.unfilteredCommits, fargs.base, 1, <<>>)

\* ------------------------------------------------------------------------
\* Properties of deduplicateConsecutive (SpecDedup)
\* ------------------------------------------------------------------------
\* the first element of every maximal run of consecutive elements with equal
\* keys, in order
RECURSIVE FirstOfRunsFrom(_, _)
FirstOfRunsFrom(items, i) ==
  IF i > Len(items) THEN <<>>
  ELSE IF i > 1 /\ items[i].key = items[i - 1].key THEN FirstOfRunsFrom(items, i + 1)
  ELSE <<items[i]>> \o FirstOfRunsFrom(items, i + 1)

\* C19: for every input sequence, the list deduplicateConsecutive returns is
\* the input with each maximal run of consecutive elements of equal accessor
\* value replaced by the first element of the run, in the input's order
\* ([A, A, B, B, A] gives [A, B, A]).
C19_KeepsFirstOfEachRun ==
  fname = "deduplicateConsecutive" => fret = FirstOfRunsFrom(fargs, 1)

\* C20: deduplicating, with a fresh accumulator, the list a deduplication
\* returned gives that list again.
C20_DedupIsIdempotent ==
  fname = "deduplicateConsecutive again" => fret = fargs

\* the second pass over [A, B, A], the result for [A, A, B, B, A]
C20_Witness ==
  /\ fname = "deduplicateConsecutive again"
  /\ KeysOf(fargs) = << <<"A">>, <<"B">>, <<"A">> >>
  /\ fargs[2].id = 3
  /\ fargs[3].id = 5
  /\ fret = fargs

\* ------------------------------------------------------------------------
\* Further properties of the classifier (SpecDiff)
\* ------------------------------------------------------------------------
\* the two versions have the same components as numbers: major, minor and
\* patch, and a pre-release suffix absent on both sides or numerically equal
NumericallyEqual(A, B) ==
  /\ DigitsValue(A.major) = DigitsValue(B.major)
  /\ DigitsValue(A.minor) = DigitsValue(B.minor)
  /\ DigitsValue(A.patch) = DigitsValue(B.patch)
  /\ \/ A.preRelease = <<>> /\ B.preRelease = <<>>
     \/ /\ A.preRelease # <<>>
        /\ B.preRelease # <<>>
        /\ DigitsValue(A.preRelease) = DigitsValue(B.preRelease)

\* C21: for two valid versions whose major, minor, patch and pre-release
\* components are all equal as non-negative integers, getSemverDiffType
\* returns "equal": no other label, and it does not raise.
C21_NumericallyEqualIsEqual ==
  (DiffCalled /\ NumericallyEqual(fargs.A, fargs.B)) => fret = "equal"

\* ------------------------------------------------------------------------
\* Properties of the fetches (SpecFetch)
\* ------------------------------------------------------------------------
\* the fetch for kept commit i was rejected for another reason than the file
\* being absent
FetchFailedOtherwise(i) == responses[i].error \notin {"none", FileAbsent}

\* C22: when the fetch for a kept commit fails for a reason other than the
\* file being absent at that commit, no 0.0.0 fallback is substituted for
\* the commit and the run aborts without a result.
C22_OtherFetchFailuresAreFatal ==
  /\ \A i \in 1..Len(commits) : FetchFailedOtherwise(i) => ~responses[i].isFallback
  /\ (HistoryFinished /\ \E i \in 1..Len(commits) : FetchFailedOtherwise(i)) =>
       /\ hpc = "failed"
       /\ houtputs = {}

\* ------------------------------------------------------------------------
\* Further properties of run() (SpecHistory)
\* ------------------------------------------------------------------------
\* C23: every oldVersion, newVersion and every version of a change in a
\* result matches the semver-subset grammar, whichever extraction strategy
\* is selected.
C23_ResultVersionsMatchGrammar ==
  HistoryReturned =>
    /\ semverSchema(response.oldVersion)
    /\ semverSchema(response.newVersion)
    /\ \A i \in 1..Len(response.changes) :
         /\ semverSchema(response.changes[i].oldVersion)
         /\ semverSchema(response.changes[i].newVersion)

CategorizeCalled == fname = "categorizeChangedFiles"

Categories == {"added", "modified", "removed", "renamed"}

\* the filenames of the records of `files` whose status is st, in order
RECURSIVE NamesWithStatus(_, _)
NamesWithStatus(files, st) ==
  IF files = <<>> THEN <<>>
  ELSE (IF Head(files).status = st THEN <<Head(files).filename>> ELSE <<>>)
         \o NamesWithStatus(Tail(files), st)

\* C25: `all` holds the filename of every record in provider order; added,
\* modified, removed and renamed are the filenames of the records with
\* exactly that status, in order; every path of a category is in `all`;
\* records with status copied, changed or unchanged appear in `all` only;
\* each record contributes to at most one category.
C25_CategoriesFilterByStatus ==
  CategorizeCalled =>
    /\ fret.all = [i \in 1..Len(fargs) |-> fargs[i].filename]
    /\ \A st \in Categories :
         /\ fret[st] = NamesWithStatus(fargs, st)
         /\ \A i \in 1..Len(fret[st]) :
              \E j \in 1..Len(fret.all) : fret.all[j] = fret[st][i]
    /\ DOMAIN fret = Categories \cup {"all"}
    /\ Len(fret.added) + Len(fret.modified) + Len(fret.removed) + Len(fret.renamed)
         = Cardinality({ i \in 1..Len(fargs) : fargs[i].status \in Categories })

\* a copied file followed by a modified one: the first is in `all` only
C25_Witness ==
  /\ CategorizeCalled
  /\ Len(fargs) = 2
  /\ fargs[1].status = "copied"
  /\ fargs[2].status = "modified"
  /\ fret.modified = << fargs[2].filename >>
  /\ Len(fret.all) = 2

\* ------------------------------------------------------------------------
\* Further properties of the publish decision (Spec)
\* ------------------------------------------------------------------------
\* C26: the rationale follows the row of the decision table that fired: the
\* 'version was updated manually' narrative exactly when the explicit row
\* fired, the 'relevant files were changed which resulted in a version bump'
\* narrative exactly when the auto-increment row fired, and 'No relevant
\* changes were made' exactly when publish = false.
C26_RationaleFollowsDecisionRow ==
  ppc = "done" =>
    /\ decision.reason = "newVersionManuallySet" <=> decision.row = "explicit"
    /\ decision.reason = "newVersionAutoDetected" <=> decision.row = "auto"
    /\ decision.reason = "noNewVersion" <=> ~decision.publish

\* C27: whenever the run ends with publish = true, the emitted version
\* differs from latestRegistryVersion.
C27_PublishedVersionIsNotLatest ==
  (ppc = "done" /\ decision.publish) =>
    /\ decision.version # inputs.latestRegistryVersion
    /\ "version" \in DOMAIN outputs
    /\ outputs.version # inputs.latestRegistryVersion

\* the file was bumped to the version the registry already has and the
\* auto-increment row publishes an increment of it
C27_Witness ==
  /\ ppc = "done"
  /\ decision.publish
  /\ inputs.versionMetadata.changed
  /\ DetectedNonLinear
  /\ decision.row = "auto"
  /\ outputs.version # inputs.latestRegistryVersion

\* ------------------------------------------------------------------------
\* Properties of consecutive runs (SpecReleases)
\* ------------------------------------------------------------------------
\* C28: in a sequence of runs in which each emitted version is published and
\* is the latestRegistryVersion of the following run, no run emits a version
\* that an earlier run emitted.
C28_NoVersionEmittedTwice ==
  (ppc = "done" /\ decision.publish) =>
    \A i \in 1..Len(published) : published[i] # decision.version

\* ------------------------------------------------------------------------
\* The changes list as a chain (SpecHistory)
\* ------------------------------------------------------------------------
ChangeTypes == {"major", "minor", "patch", "pre-release"}

\* the changes of a changed result lead from oldVersion to newVersion, each
\* entry starting where the one before it ended
ChangesAreChain ==
  LET changes == response.changes IN
    /\ changes[1].oldVersion = response.oldVersion
    /\ \A i \in 1..(Len(changes) - 1) :
         changes[i].newVersion = changes[i + 1].oldVersion
    /\ \A i \in 1..Len(changes) :
         /\ changes[i].oldVersion # changes[i].newVersion
         /\ changes[i].type \in ChangeTypes

\* the classifier gives a change type for every two versions that follow
\* each other and differ
AdjacentVersionsClassified ==
  \A k \in 2..Len(VersionedCommits) :
    VersionedCommits[k].version # VersionedCommits[k - 1].version =>
      getSemverDiffType(VersionedCommits[k - 1].version,
                        VersionedCommits[k].version) \in ChangeTypes

\* C29: in every changed = true result the changes list is a chain from
\* oldVersion (first entry's oldVersion is the result's oldVersion, each
\* entry's newVersion is the next entry's oldVersion, no entry has equal
\* versions, every type is major, minor, patch or pre-release), and the
\* classifier never yields 'equal' and never raises for an adjacent pair of
\* the deduplicated version sequence of a run whose versions were all
\* extracted and match the semver-subset grammar.
C29_ChangesAreChain ==
  /\ (HistoryReturned /\ response.changed) => ChangesAreChain
  /\ (HistoryFinished /\ ~SomeStatusNot200
       /\ \A i \in 1..Len(commits) : ~Unextractable(i)
       /\ \A k \in 1..Len(VersionedCommits) : semverSchema(VersionedCommits[k].version))
      => AdjacentVersionsClassified

\* ------------------------------------------------------------------------
\* The examined commit list (SpecScan)
\* ------------------------------------------------------------------------
\* the SHAs of the commits of a list that are not artificial, in order
RECURSIVE RealShas(_)
RealShas(list) ==
  IF list = <<>> THEN <<>>
  ELSE (IF Head(list).sha = Null THEN <<>> ELSE <<Head(list).sha>>)
         \o RealShas(Tail(list))

\* sub is full with some elements left out
RECURSIVE IsSubSequence(_, _)
IsSubSequence(sub, full) ==
  IF sub = <<>> THEN TRUE
  ELSE IF full = <<>> THEN FALSE
  ELSE IF Head(sub) = Head(full) THEN IsSubSequence(Tail(sub), Tail(full))
  ELSE IsSubSequence(sub, Tail(full))

BaseIsPrefixOfBaseCommit == StartsWith(fargs.unfilteredCommits[1].sha, fargs.base)

\* C30: the examined commit list is, apart from the artificial commits, an
\* order-preserving sub-sequence of [base commit, ...range commits] with each
\* commit at most once; an artificial commit occurs only directly before a
\* commit without parents; and when the supplied base is a prefix of the
\* base commit's SHA, the scan does not fail and the base commit is the
\* first real commit of the list, whatever its number of parents.
C30_ExaminedCommitsAreSubSequence ==
  ScanCalled =>
    /\ ~fret.threw =>
         LET kept == fret.value
             real == RealShas(kept)
             given == fargs.unfilteredCommits
         IN /\ IsSubSequence(real, [i \in 1..Len(given) |-> given[i].sha])
            /\ \A i, j \in 1..Len(real) : i # j => real[i] # real[j]
            /\ \A k \in 1..Len(kept) :
                 kept[k].sha = Null =>
                   /\ k < Len(kept)
                   /\ \E i \in 1..Len(given) :
                        /\ given[i].sha = kept[k + 1].sha
                        /\ given[i].parents = <<>>
    /\ BaseIsPrefixOfBaseCommit =>
         /\ ~fret.threw
         /\ RealShas(fret.value) # <<>>
         /\ RealShas(fret.value)[1] = fargs.unfilteredCommits[1].sha

\* the base is a shortened SHA of the base commit, which is a merge commit
\* and is kept first; a later root commit is kept behind its artificial
\* parent and a merge commit is dropped
C30_Witness ==
  /\ ScanCalled
  /\ fargs.base # fargs.unfilteredCommits[1].sha
  /\ BaseIsPrefixOfBaseCommit
  /\ Len(fargs.unfilteredCommits[1].parents) = 2
  /\ ~fret.threw
  /\ fret.value[1].sha = fargs.unfilteredCommits[1].sha
  /\ \E k \in 2..Len(fret.value) : fret.value[k].sha = Null
  /\ Len(RealShas(fret.value)) < Len(fargs.unfilteredCommits)

====
